---- MODULE Spec2Model ----
(***************************************************************************)
(* Model of scheduler.py: the Task class, calculate_hyperperiod and the    *)
(* tick loop of run_scheduler.  Task objects live in a heap and are held   *)
(* by reference, as in Python; run_scheduler works on deep copies.         *)
(***************************************************************************)
EXTENDS Integers, Sequences, FiniteSets, TLC

VARIABLES
    heap,                   \* reference -> Task object
    periodic_tasks,         \* argument: the caller's list of periodic Task references
    aperiodic_tasks,        \* argument: the caller's list of aperiodic Task references
    algorithm,              \* argument
    num_cpus,               \* argument
    server_type,            \* argument
    server_capacity,        \* argument
    server_period,          \* argument
    hyperperiod,            \* local of run_scheduler
    active_periodic,        \* local: deep copy of periodic_tasks
    aperiodic_queue,        \* local: deep copy of aperiodic_tasks
    server_budget,
    server_deadline,
    timeline,
    queue_log,
    t,                      \* loop variable of the simulation loop
    ready_aperiodic,
    global_ready_queue,
    execution_candidates,
    cpus_assigned,
    log_entry,
    running_tasks_this_tick,
    pc,                     \* position in run_scheduler
    runs,                   \* number of calls the caller has started
    first_result,           \* what the caller kept of the first call
    hyper_tasks             \* argument `tasks` of a direct call of calculate_hyperperiod

vars == <<heap, periodic_tasks, aperiodic_tasks, algorithm, num_cpus, server_type,
          server_capacity, server_period, hyperperiod, active_periodic,
          aperiodic_queue, server_budget, server_deadline, timeline, queue_log, t,
          ready_aperiodic, global_ready_queue, execution_candidates, cpus_assigned,
          log_entry, running_tasks_this_tick, pc, runs, first_result, hyper_tasks>>

args == <<periodic_tasks, aperiodic_tasks, algorithm, num_cpus, server_type,
          server_capacity, server_period, hyper_tasks>>

(***************************************************************************)
(* Bounds of the explored inputs.                                          *)
(***************************************************************************)
MaxCost == 2
MaxPeriod == 3
MaxArrival == 1
MaxDeadline == 3
MaxTasks == 3
MaxApArrival == 2
MaxCpus == 2
MaxCapacity == 2
MaxRuns == 2

(***************************************************************************)
(* Program constants.                                                      *)
(***************************************************************************)
DefaultHyperperiod == 20
HyperperiodCap == 100
ServerRef == 0

(***************************************************************************)
(* class Task                                                              *)
(***************************************************************************)
Task(name, task_type, cost, period, deadline, arrival) ==
    [name |-> name,
     type |-> task_type,
     arrival_time |-> arrival,
     cost |-> cost,
     period |-> IF period > 0 THEN period ELSE 0,
     deadline |-> IF deadline = 0 /\ period > 0 THEN period ELSE deadline,
     remaining_time |-> 0,
     abs_deadline |-> 0]

(***************************************************************************)
(* Sequence helpers.                                                       *)
(***************************************************************************)
Range(s) == {s[i] : i \in DOMAIN s}

SeqMax(s) == CHOOSE m \in Range(s) : \A x \in Range(s) : x <= m

Deref(h, refs) == [i \in DOMAIN refs |-> h[refs[i]]]

(***************************************************************************)
(* math.gcd, _lcm, functools.reduce(_lcm, ...), calculate_hyperperiod      *)
(***************************************************************************)
Abs(x) == IF x < 0 THEN -x ELSE x

RECURSIVE gcd(_, _)
gcd(a, b) == IF b = 0 THEN Abs(a) ELSE gcd(b, a % b)

_lcm(a, b) == IF a = 0 \/ b = 0 THEN 0 ELSE Abs(a * b) \div gcd(a, b)

RECURSIVE reduce_lcm(_, _)
reduce_lcm(acc, s) == IF s = <<>> THEN acc ELSE reduce_lcm(_lcm(acc, Head(s)), Tail(s))

IsPeriodicType(task) == task.type = "Periodic"

\* variant: the offset taken over the periodic tasks only
max_offset_periodic_only(tasks) ==
    LET periodic == SelectSeq(tasks, IsPeriodicType)
    IN  IF periodic # <<>>
        THEN SeqMax([i \in DOMAIN periodic |-> periodic[i].arrival_time]) ELSE 0

max_offset(tasks) ==
    IF tasks # <<>> THEN SeqMax([i \in DOMAIN tasks |-> tasks[i].arrival_time]) ELSE 0

calculate_hyperperiod(tasks) ==
    LET periodic == SelectSeq(tasks, IsPeriodicType)
        periods == [i \in DOMAIN periodic |-> periodic[i].period]
    IN  IF periodic = <<>> THEN DefaultHyperperiod
        ELSE max_offset(tasks) + reduce_lcm(Head(periods), Tail(periods))

HyperperiodArg(h, periodic, aperiodic) == Deref(h, periodic)

(***************************************************************************)
(* copy.deepcopy of a list of Task objects: fresh objects, equal fields.   *)
(***************************************************************************)
NewRefs(h, n) ==
    LET base == CHOOSE m \in DOMAIN h \cup {0} : \A r \in DOMAIN h \cup {0} : r <= m
    IN  [i \in 1..n |-> base + i]

\* variant: the list is used as it is, without a copy of the objects
no_copy(h, refs) == [list |-> refs, heap |-> h]

deepcopy(h, refs) ==
    LET fresh == NewRefs(h, Len(refs))
    IN  [list |-> fresh,
         heap |-> [r \in DOMAIN h \cup Range(fresh) |->
                     IF r \in DOMAIN h THEN h[r]
                     ELSE h[refs[CHOOSE i \in DOMAIN fresh : fresh[i] = r]]]]

RECURSIVE InitAperiodic(_, _, _)
InitAperiodic(h, queue, i) ==
    IF i > Len(queue) THEN h
    ELSE InitAperiodic([h EXCEPT ![queue[i]].remaining_time = h[queue[i]].cost],
                       queue, i + 1)

(***************************************************************************)
(* Output entries.  A Python string built from pieces (an f-string) is the *)
(* sequence of its pieces.                                                 *)
(***************************************************************************)
\* variant: the label numbered from 0
CpuLabelFromZero(n) == <<"CPU", n>>

CpuLabel(n) == <<"CPU", n + 1>>

TimelineEntry(task, start, finish, status, cpu) ==
    [Task |-> task, Start |-> start, Finish |-> finish, Status |-> status, CPU |-> cpu]

(***************************************************************************)
(* Inputs: what the caller constructs with Task(...) and passes.           *)
(***************************************************************************)
Algorithms == {"Rate Monotonic", "Deadline Monotonic", "EDF", "Least Laxity First"}
BudgetServers == {"Deferrable Server", "Polling Server"}
ServerTypes == {"None", "Background", "Deferrable Server", "Polling Server"}

PeriodicTask(name, cost, period, deadline, arrival) ==
    Task(name, "Periodic", cost, period, deadline, arrival)

AperiodicTask(name, cost, arrival) == Task(name, "Aperiodic", cost, 0, 0, arrival)

Input(p, a, alg, n, st, cap, per) ==
    [periodic |-> p, aperiodic |-> a, algorithm |-> alg, num_cpus |-> n,
     server_type |-> st, server_capacity |-> cap, server_period |-> per]

\* Test 2 of scheduler_test.py
Test2Input ==
    Input(<<PeriodicTask("T1", 4, 10, 10, 0), PeriodicTask("T2", 2, 12, 4, 0)>>, <<>>,
          "Rate Monotonic", 1, "None", 0, 0)

\* Test 1 of scheduler_test.py
Test1Input(st) == Input(<<>>, <<AperiodicTask("J1", 1, 2)>>, "Rate Monotonic", 1, st, 2, 5)

\* Test 3 of scheduler_test.py
Test3Input ==
    Input(<<PeriodicTask("T1", 2, 10, 0, 0), PeriodicTask("T2", 2, 10, 0, 0),
            PeriodicTask("T3", 2, 10, 0, 0)>>, <<>>, "Rate Monotonic", 2, "None", 0, 0)

TestInputs == {Test2Input, Test3Input} \cup {Test1Input(st) : st \in BudgetServers}

PeriodicParams ==
    [cost : 1..MaxCost, period : 2..MaxPeriod, deadline : 0..MaxDeadline,
     arrival : 0..MaxArrival]

PeriodicNamed(name, q) == PeriodicTask(name, q.cost, q.period, q.deadline, q.arrival)

PeriodicLists ==
    {<<>>} \cup {<<PeriodicNamed("T1", q)>> : q \in PeriodicParams}
           \cup {<<PeriodicNamed("T1", q1), PeriodicNamed("T2", q2)>> :
                   q1 \in PeriodicParams, q2 \in PeriodicParams}

PolicyInputs ==
    {Input(p, <<>>, alg, n, "None", 0, 0) :
       p \in PeriodicLists \ {<<>>}, alg \in Algorithms, n \in 1..MaxCpus}

AperiodicLists ==
    {<<AperiodicTask("J1", c, a)>> : c \in 1..MaxCost, a \in 0..MaxApArrival}
      \cup {<<AperiodicTask("J1", MaxCost, aa[1]), AperiodicTask("J2", 1, aa[2])>> :
              aa \in {x \in (0..MaxApArrival) \X (0..MaxApArrival) : x[1] # x[2]}}

ServerConfigs ==
    {<<st, cap, per>> : st \in BudgetServers, cap \in 1..MaxCapacity, per \in 2..MaxPeriod}
      \cup {<<"None", 0, 0>>, <<"Background", 0, 0>>, <<" Polling Server", MaxCapacity, 2>>,
            <<"Deferrable Server", 0, 2>>}

\* two tasks of different periods, implicit deadlines, released at 0
ServerPeriodicLists ==
    {p \in PeriodicLists :
       /\ Len(p) = 2
       /\ p[1].period < p[2].period
       /\ p[1].cost = 1
       /\ \A i \in 1..2 : p[i].deadline = p[i].period /\ p[i].arrival_time = 0}

ServerInputs ==
    {Input(p, a, alg, n, sc[1], sc[2], sc[3]) :
       p \in ServerPeriodicLists, a \in AperiodicLists, alg \in Algorithms,
       n \in 1..MaxCpus, sc \in ServerConfigs}

\* Names are free text: a periodic task may be called Server, or like a job.
\* The task called Server has cost 1 and any deadline and arrival.
ImpostorLists ==
    {<<PeriodicNamed("Server", q), PeriodicTask("T2", 1, MaxPeriod, 0, 0)>> :
       q \in {x \in PeriodicParams : x.cost = 1}}

SharedNameLists ==
    {<<p[1], [p[2] EXCEPT !.name = "J1"]>> : p \in ServerPeriodicLists}

CollisionInputs ==
    {Input(p, a, alg, n, sc[1], sc[2], sc[3]) :
       p \in ImpostorLists \cup SharedNameLists,
       a \in {l \in AperiodicLists : Len(l) = 1 /\ l[1].arrival_time <= MaxArrival},
       alg \in Algorithms,
       n \in 1..MaxCpus, sc \in ServerConfigs}

Inputs == TestInputs \cup PolicyInputs \cup ServerInputs \cup CollisionInputs

(***************************************************************************)
(* The caller builds the objects and calls run_scheduler.                  *)
(***************************************************************************)
CallerHeap(inp) ==
    LET np == Len(inp.periodic)
        na == Len(inp.aperiodic)
    IN  [r \in 1..(np + na) |-> IF r <= np THEN inp.periodic[r] ELSE inp.aperiodic[r - np]]

Locals0 ==
    /\ hyperperiod = 0
    /\ active_periodic = <<>>
    /\ aperiodic_queue = <<>>
    /\ server_budget = 0
    /\ server_deadline = 0
    /\ timeline = <<>>
    /\ queue_log = <<>>
    /\ t = 0
    /\ ready_aperiodic = <<>>
    /\ global_ready_queue = <<>>
    /\ execution_candidates = <<>>
    /\ cpus_assigned = 0
    /\ log_entry = [Time |-> 0, CPU |-> <<>>]
    /\ running_tasks_this_tick = <<>>

InitWith(inp) ==
    /\ heap = CallerHeap(inp)
    /\ periodic_tasks = [i \in 1..Len(inp.periodic) |-> i]
    /\ aperiodic_tasks = [i \in 1..Len(inp.aperiodic) |-> Len(inp.periodic) + i]
    /\ algorithm = inp.algorithm
    /\ num_cpus = inp.num_cpus
    /\ server_type = inp.server_type
    /\ server_capacity = inp.server_capacity
    /\ server_period = inp.server_period
    /\ Locals0
    /\ pc = "setup"
    /\ runs = 1
    /\ first_result = <<>>
    /\ hyper_tasks = <<>>

Init == \E inp \in Inputs : InitWith(inp)

(***************************************************************************)
(* run_scheduler, 1. SETUP                                                 *)
(***************************************************************************)
LoopHead(now, h) == IF now < h THEN "deadline_check" ELSE "done"

Setup ==
    /\ pc = "setup"
    /\ LET hp == calculate_hyperperiod(HyperperiodArg(heap, periodic_tasks, aperiodic_tasks))
           capped == IF hp > HyperperiodCap THEN HyperperiodCap ELSE hp
           cp == deepcopy(heap, periodic_tasks)
           ca == deepcopy(cp.heap, aperiodic_tasks)
       IN  /\ hyperperiod' = capped
           /\ active_periodic' = cp.list
           /\ aperiodic_queue' = ca.list
           /\ heap' = InitAperiodic(ca.heap, ca.list, 1)
           /\ pc' = LoopHead(0, capped)
    /\ server_budget' = server_capacity
    /\ server_deadline' = server_period
    /\ timeline' = <<>>
    /\ queue_log' = <<>>
    /\ t' = 0
    /\ UNCHANGED <<args, ready_aperiodic, global_ready_queue, execution_candidates,
                   cpus_assigned, log_entry, running_tasks_this_tick, runs, first_result>>

(***************************************************************************)
(* 2. SIMULATION LOOP, A. DEADLINE CHECK                                   *)
(***************************************************************************)
\* variant: the miss noticed one tick after the deadline
MissedLate(task, now) ==
    task.remaining_time > 0 /\ now > task.abs_deadline /\ task.abs_deadline > 0

MissedNow(task, now) ==
    task.remaining_time > 0 /\ now >= task.abs_deadline /\ task.abs_deadline > 0

RECURSIVE DeadlineLoop(_, _, _, _, _)
DeadlineLoop(h, tl, list, i, now) ==
    IF i > Len(list) THEN [heap |-> h, timeline |-> tl]
    ELSE IF MissedNow(h[list[i]], now)
         THEN DeadlineLoop([h EXCEPT ![list[i]].remaining_time = 0],
                           Append(tl, TimelineEntry(h[list[i]].name, now, now,
                                                    "Missed", <<"Err">>)),
                           list, i + 1, now)
         ELSE DeadlineLoop(h, tl, list, i + 1, now)

DeadlineCheck ==
    /\ pc = "deadline_check"
    /\ LET r == DeadlineLoop(heap, timeline, active_periodic, 1, t)
       IN  /\ heap' = r.heap
           /\ timeline' = r.timeline
    /\ pc' = "arrivals"
    /\ UNCHANGED <<args, hyperperiod, active_periodic, aperiodic_queue, server_budget,
                   server_deadline, queue_log, t, ready_aperiodic, global_ready_queue,
                   execution_candidates, cpus_assigned, log_entry,
                   running_tasks_this_tick, runs, first_result>>

(***************************************************************************)
(* B. PERIODIC ARRIVALS                                                    *)
(***************************************************************************)
\* variant: every tick from the arrival on counts as a release
IsArrivalEveryTick(task, now) == now >= task.arrival_time

\* variant: the release pattern counted from tick 0, whatever the arrival offset
IsArrivalIgnoringOffset(task, now) == now % task.period = 0

IsArrival(task, now) ==
    now >= task.arrival_time /\ (now - task.arrival_time) % task.period = 0

RECURSIVE ArrivalLoop(_, _, _, _)
ArrivalLoop(h, list, i, now) ==
    IF i > Len(list) THEN h
    ELSE IF IsArrival(h[list[i]], now)
         THEN ArrivalLoop([h EXCEPT ![list[i]].remaining_time = h[list[i]].cost,
                                    ![list[i]].abs_deadline = now + h[list[i]].deadline],
                          list, i + 1, now)
         ELSE ArrivalLoop(h, list, i + 1, now)

PeriodicArrivals ==
    /\ pc = "arrivals"
    /\ heap' = ArrivalLoop(heap, active_periodic, 1, t)
    /\ pc' = "server"
    /\ UNCHANGED <<args, hyperperiod, active_periodic, aperiodic_queue, server_budget,
                   server_deadline, timeline, queue_log, t, ready_aperiodic,
                   global_ready_queue, execution_candidates, cpus_assigned, log_entry,
                   running_tasks_this_tick, runs, first_result>>

(***************************************************************************)
(* C. APERIODIC ARRIVALS & SERVER REPLENISHMENT, D. BUILD READY QUEUE,     *)
(* E. SORTING, and the initialisation of F.                                *)
(***************************************************************************)
Replenishes(st, now, period) == st \in BudgetServers /\ now % period = 0

IsReadyAperiodic(task, now) == task.arrival_time <= now /\ task.remaining_time > 0

RECURSIVE FilterRefs(_, _, _)
FilterRefs(list, keep, i) ==
    IF i > Len(list) THEN <<>>
    ELSE IF list[i] \in keep THEN <<list[i]>> \o FilterRefs(list, keep, i + 1)
         ELSE FilterRefs(list, keep, i + 1)

ReadyAperiodic(h, queue, now) ==
    FilterRefs(queue, {r \in Range(queue) : IsReadyAperiodic(h[r], now)}, 1)

PollingForfeit(st, budget, ready) ==
    IF st = "Polling Server" /\ budget > 0 /\ ready = <<>> THEN 0 ELSE budget

ReadyPeriodic(h, list) == FilterRefs(list, {r \in Range(list) : h[r].remaining_time > 0}, 1)

ServerInQueue(st, budget, ready) == st \in BudgetServers /\ budget > 0 /\ ready # <<>>

ServerTask(period, deadline) ==
    LET server_task == Task("Server", "Server", 1, period, period, 0)
    IN  [server_task EXCEPT !.abs_deadline = deadline]

\* variant: every policy orders by relative deadline
SortKeyRelativeDeadline(task, alg, now) == task.deadline

\* variant: every policy orders by absolute deadline
SortKeyAbsDeadline(task, alg, now) == task.abs_deadline

SortKey(task, alg, now) ==
    CASE alg = "Rate Monotonic" -> task.period
      [] alg = "Deadline Monotonic" -> task.deadline
      [] alg = "EDF" -> task.abs_deadline
      [] alg = "Least Laxity First" -> task.abs_deadline - now - task.remaining_time
      [] OTHER -> 0

\* variant: a sort that puts an entry ahead of the entries of equal key
RECURSIVE InsertBeforeEqual(_, _, _)
InsertBeforeEqual(s, x, k) ==
    IF s = <<>> THEN <<x>>
    ELSE IF k[x] <= k[Head(s)] THEN <<x>> \o s
         ELSE <<Head(s)>> \o InsertBeforeEqual(Tail(s), x, k)

\* list.sort(key=...) is stable
RECURSIVE InsertByKey(_, _, _)
InsertByKey(s, x, k) ==
    IF s = <<>> THEN <<x>>
    ELSE IF k[x] < k[Head(s)] THEN <<x>> \o s
         ELSE <<Head(s)>> \o InsertByKey(Tail(s), x, k)

RECURSIVE SortByKey(_, _, _)
SortByKey(done, rest, k) ==
    IF rest = <<>> THEN done ELSE SortByKey(InsertByKey(done, Head(rest), k), Tail(rest), k)

SortQueue(h, queue, alg, now) ==
    SortByKey(<<>>, queue, [r \in Range(queue) |-> SortKey(h[r], alg, now)])

ServerAndReadyQueue ==
    /\ pc = "server"
    /\ LET repl == Replenishes(server_type, t, server_period)
           budget1 == IF repl THEN server_capacity ELSE server_budget
           deadline1 == IF repl THEN t + server_period ELSE server_deadline
           ready == ReadyAperiodic(heap, aperiodic_queue, t)
           budget2 == PollingForfeit(server_type, budget1, ready)
           withServer == ServerInQueue(server_type, budget2, ready)
           h1 == IF withServer
                 THEN (ServerRef :> ServerTask(server_period, deadline1)) @@ heap
                 ELSE heap
           queue == ReadyPeriodic(heap, active_periodic)
                      \o (IF withServer THEN <<ServerRef>> ELSE <<>>)
           sorted == SortQueue(h1, queue, algorithm, t)
       IN  /\ server_budget' = budget2
           /\ server_deadline' = deadline1
           /\ ready_aperiodic' = ready
           /\ heap' = h1
           /\ global_ready_queue' = sorted
           /\ execution_candidates' = sorted
    /\ cpus_assigned' = 0
    /\ log_entry' = [Time |-> t, CPU |-> <<>>]
    /\ running_tasks_this_tick' = <<>>
    /\ pc' = "dispatch"
    /\ UNCHANGED <<args, hyperperiod, active_periodic, aperiodic_queue, timeline,
                   queue_log, t, runs, first_result>>

(***************************************************************************)
(* F. EXECUTION: one iteration of the while loop per step.                 *)
(***************************************************************************)
SetLog(entry, label, text) ==
    [entry EXCEPT !.CPU = [c \in DOMAIN entry.CPU \cup {label} |->
                             IF c = label THEN text ELSE entry.CPU[c]]]

DispatchFrame ==
    UNCHANGED <<args, hyperperiod, active_periodic, aperiodic_queue, server_deadline,
                queue_log, t, ready_aperiodic, global_ready_queue, runs, first_result>>

TreatedAsServer(task) == task.name = "Server"

\* variant: the budget spent without looking at it
SpendBudgetUnguarded(budget) == budget - 1

SpendBudget(budget) == IF budget > 0 THEN budget - 1 ELSE budget

\* CASE 1: SERVER EXECUTION
DispatchServer ==
    /\ pc = "dispatch"
    /\ cpus_assigned < num_cpus
    /\ execution_candidates # <<>>
    /\ TreatedAsServer(heap[Head(execution_candidates)])
    /\ ready_aperiodic # <<>>
    /\ LET target_aperiodic == ready_aperiodic[1]
           name == heap[target_aperiodic].name
           cpu_label == CpuLabel(cpus_assigned)
       IN  /\ timeline' = Append(timeline,
                                 TimelineEntry(name, t, t + 1, "Server Exec", cpu_label))
           /\ log_entry' = SetLog(log_entry, cpu_label, <<"Server(", name, ")">>)
           /\ running_tasks_this_tick' = Append(running_tasks_this_tick, name)
           /\ heap' = [heap EXCEPT ![target_aperiodic].remaining_time = @ - 1]
    /\ server_budget' = SpendBudget(server_budget)
    /\ execution_candidates' = Tail(execution_candidates)
    /\ cpus_assigned' = cpus_assigned + 1
    /\ pc' = "dispatch"
    /\ DispatchFrame

\* CASE 1 with an empty ready_aperiodic: ready_aperiodic[0] raises IndexError
DispatchServerRaises ==
    /\ pc = "dispatch"
    /\ cpus_assigned < num_cpus
    /\ execution_candidates # <<>>
    /\ TreatedAsServer(heap[Head(execution_candidates)])
    /\ ready_aperiodic = <<>>
    /\ execution_candidates' = Tail(execution_candidates)
    /\ pc' = "raised"
    /\ UNCHANGED <<heap, timeline, log_entry, running_tasks_this_tick, server_budget,
                   cpus_assigned>>
    /\ DispatchFrame

\* CASE 2: PERIODIC TASK EXECUTION
DispatchPeriodic ==
    /\ pc = "dispatch"
    /\ cpus_assigned < num_cpus
    /\ execution_candidates # <<>>
    /\ ~TreatedAsServer(heap[Head(execution_candidates)])
    /\ LET task_to_run == Head(execution_candidates)
           name == heap[task_to_run].name
           cpu_label == CpuLabel(cpus_assigned)
       IN  /\ timeline' = Append(timeline,
                                 TimelineEntry(name, t, t + 1, "Running", cpu_label))
           /\ log_entry' = SetLog(log_entry, cpu_label, <<name>>)
           /\ running_tasks_this_tick' = Append(running_tasks_this_tick, name)
           /\ heap' = [heap EXCEPT ![task_to_run].remaining_time = @ - 1]
    /\ execution_candidates' = Tail(execution_candidates)
    /\ cpus_assigned' = cpus_assigned + 1
    /\ pc' = "dispatch"
    /\ UNCHANGED server_budget
    /\ DispatchFrame

AvailableAp(h, ready, running) ==
    FilterRefs(ready, {r \in Range(ready) : h[r].name \notin Range(running)}, 1)

BackgroundRuns(st, h, ready, running) ==
    st = "Background" /\ ready # <<>> /\ AvailableAp(h, ready, running) # <<>>

\* CASE 3: BACKGROUND EXECUTION
DispatchBackground ==
    /\ pc = "dispatch"
    /\ cpus_assigned < num_cpus
    /\ execution_candidates = <<>>
    /\ BackgroundRuns(server_type, heap, ready_aperiodic, running_tasks_this_tick)
    /\ LET bg_task == AvailableAp(heap, ready_aperiodic, running_tasks_this_tick)[1]
           name == heap[bg_task].name
           cpu_label == CpuLabel(cpus_assigned)
       IN  /\ timeline' = Append(timeline,
                                 TimelineEntry(name, t, t + 1, "Background", cpu_label))
           /\ log_entry' = SetLog(log_entry, cpu_label, <<name, "(BG)">>)
           /\ running_tasks_this_tick' = Append(running_tasks_this_tick, name)
           /\ heap' = [heap EXCEPT ![bg_task].remaining_time = @ - 1]
    /\ cpus_assigned' = cpus_assigned + 1
    /\ pc' = "dispatch"
    /\ UNCHANGED <<server_budget, execution_candidates>>
    /\ DispatchFrame

\* both IDLE branches
DispatchIdle ==
    /\ pc = "dispatch"
    /\ cpus_assigned < num_cpus
    /\ execution_candidates = <<>>
    /\ ~BackgroundRuns(server_type, heap, ready_aperiodic, running_tasks_this_tick)
    /\ LET cpu_label == CpuLabel(cpus_assigned)
       IN  /\ timeline' = Append(timeline,
                                 TimelineEntry("IDLE", t, t + 1, "Idle", cpu_label))
           /\ log_entry' = SetLog(log_entry, cpu_label, <<"IDLE">>)
    /\ cpus_assigned' = cpus_assigned + 1
    /\ pc' = "dispatch"
    /\ UNCHANGED <<heap, server_budget, execution_candidates, running_tasks_this_tick>>
    /\ DispatchFrame

(***************************************************************************)
(* G. LOGGING, and the step of the for loop.                               *)
(***************************************************************************)
RECURSIVE WaitingPeriodic(_, _, _, _)
WaitingPeriodic(h, list, running, i) ==
    IF i > Len(list) THEN <<>>
    ELSE IF h[list[i]].remaining_time > 0 /\ h[list[i]].name \notin Range(running)
         THEN <<<<h[list[i]].name>>>> \o WaitingPeriodic(h, list, running, i + 1)
         ELSE WaitingPeriodic(h, list, running, i + 1)

RECURSIVE WaitingAperiodic(_, _, _, _)
WaitingAperiodic(h, ready, running, i) ==
    IF i > Len(ready) THEN <<>>
    ELSE IF h[ready[i]].name \notin Range(running)
         THEN <<<<h[ready[i]].name, "(AP)">>>> \o WaitingAperiodic(h, ready, running, i + 1)
         ELSE WaitingAperiodic(h, ready, running, i + 1)

WaitingList(h, periodic, ready, running) ==
    WaitingPeriodic(h, periodic, running, 1) \o WaitingAperiodic(h, ready, running, 1)

WaitingQueueText(waiting_list) ==
    IF waiting_list # <<>> THEN <<"str", waiting_list>> ELSE <<"Empty">>

Logging ==
    /\ pc = "dispatch"
    /\ ~(cpus_assigned < num_cpus)
    /\ LET waiting_list == WaitingList(heap, active_periodic, ready_aperiodic,
                                       running_tasks_this_tick)
           entry == [Time |-> log_entry.Time,
                     CPU |-> log_entry.CPU,
                     WaitingQueue |-> WaitingQueueText(waiting_list),
                     ServerBudget |-> server_budget]
       IN  queue_log' = Append(queue_log, entry)
    /\ t' = t + 1
    /\ pc' = LoopHead(t + 1, hyperperiod)
    /\ UNCHANGED <<args, heap, hyperperiod, active_periodic, aperiodic_queue,
                   server_budget, server_deadline, timeline, ready_aperiodic,
                   global_ready_queue, execution_candidates, cpus_assigned, log_entry,
                   running_tasks_this_tick, runs, first_result>>

(***************************************************************************)
(* The caller keeps the result and calls run_scheduler again with the same *)
(* objects and arguments.                                                  *)
(***************************************************************************)
Returned == pc = "done"

Result == IF pc = "done" THEN <<timeline, queue_log>> ELSE <<"IndexError">>

CallAgain ==
    /\ pc \in {"done", "raised"}
    /\ runs < MaxRuns
    /\ runs' = runs + 1
    /\ first_result' = IF runs = 1 THEN Result ELSE first_result
    /\ pc' = "setup"
    /\ UNCHANGED <<args, heap, hyperperiod, active_periodic, aperiodic_queue,
                   server_budget, server_deadline, timeline, queue_log, t,
                   ready_aperiodic, global_ready_queue, execution_candidates,
                   cpus_assigned, log_entry, running_tasks_this_tick>>

Tick ==
    \/ DeadlineCheck
    \/ PeriodicArrivals
    \/ ServerAndReadyQueue
    \/ DispatchServer
    \/ DispatchServerRaises
    \/ DispatchPeriodic
    \/ DispatchBackground
    \/ DispatchIdle
    \/ Logging

Next == Setup \/ Tick

Spec == Init /\ [][Next]_vars

NextAgain == Next \/ CallAgain

SpecAgain == Init /\ [][NextAgain]_vars

(***************************************************************************)
(* A direct call of calculate_hyperperiod on a list that mixes periodic    *)
(* and aperiodic tasks.                                                    *)
(***************************************************************************)
HyperTaskPool ==
    {PeriodicTask("T", 1, p, 0, a) : p \in 1..MaxPeriod, a \in 0..MaxApArrival}
      \cup {AperiodicTask("J", 1, a) : a \in 0..MaxApArrival}

HyperLists == UNION {[1..n -> HyperTaskPool] : n \in 0..MaxTasks}

HyperInit ==
    /\ hyper_tasks \in HyperLists
    /\ heap = <<>>
    /\ periodic_tasks = <<>>
    /\ aperiodic_tasks = <<>>
    /\ algorithm = "Rate Monotonic"
    /\ num_cpus = 1
    /\ server_type = "None"
    /\ server_capacity = 0
    /\ server_period = 0
    /\ Locals0
    /\ pc = "hyper_call"
    /\ runs = 0
    /\ first_result = <<>>

HyperCall ==
    /\ pc = "hyper_call"
    /\ hyperperiod' = calculate_hyperperiod(hyper_tasks)
    /\ pc' = "hyper_return"
    /\ UNCHANGED <<args, heap, active_periodic, aperiodic_queue, server_budget,
                   server_deadline, timeline, queue_log, t, ready_aperiodic,
                   global_ready_queue, execution_candidates, cpus_assigned, log_entry,
                   running_tasks_this_tick, runs, first_result>>

SpecHyper == HyperInit /\ [][HyperCall]_vars

(***************************************************************************)
(* Vocabulary of the properties.                                           *)
(***************************************************************************)
CallerObjects == Range(periodic_tasks) \cup Range(aperiodic_tasks)

IsInput(inp) ==
    /\ Deref(heap, periodic_tasks) = inp.periodic
    /\ Deref(heap, aperiodic_tasks) = inp.aperiodic
    /\ algorithm = inp.algorithm
    /\ num_cpus = inp.num_cpus
    /\ server_type = inp.server_type
    /\ server_capacity = inp.server_capacity
    /\ server_period = inp.server_period

InRun == pc \in {"deadline_check", "arrivals", "server", "dispatch", "done", "raised"}

\* the ticks whose snapshot has been appended to the log
TicksDone == Len(queue_log)

ExecStatuses == {"Running", "Server Exec", "Background", "Idle"}

\* indices of the timeline entries that occupy a processor during tick s
SlotsAt(s) ==
    {i \in DOMAIN timeline : timeline[i].Start = s /\ timeline[i].Status # "Missed"}

HasEntry(task, start, finish, status) ==
    \E i \in DOMAIN timeline :
        /\ timeline[i].Task = task
        /\ timeline[i].Start = start
        /\ timeline[i].Finish = finish
        /\ timeline[i].Status = status

CommonMultiple(m, S) == \A p \in S : m % p = 0

\* the least common multiple of a set of positive numbers, when it is at most cap
LeastCommonMultiple(S, cap) ==
    CHOOSE m \in 1..cap : CommonMultiple(m, S) /\ \A k \in 1..(m - 1) : ~CommonMultiple(k, S)

HasLeastCommonMultiple(S, cap) == \E m \in 1..cap : CommonMultiple(m, S)

PeriodsOf(list) == {list[i].period : i \in {j \in DOMAIN list : list[j].type = "Periodic"}}

ArrivalsOf(list) == {list[i].arrival_time : i \in DOMAIN list}

SetMax(S) == CHOOSE m \in S : \A x \in S : x <= m

(***************************************************************************)
(* C1: with at least one periodic task and lcm(periods) + max(arrival over *)
(* the periodic and the aperiodic tasks) <= 100, a run simulates exactly   *)
(* that many ticks, so every aperiodic arrival lies in the simulated range.*)
(***************************************************************************)
C1_AllTasks == Deref(heap, periodic_tasks) \o Deref(heap, aperiodic_tasks)

C1_Expected ==
    LeastCommonMultiple(PeriodsOf(C1_AllTasks), HyperperiodCap) + SetMax(ArrivalsOf(C1_AllTasks))

C1_SimulatesLcmPlusMaxArrivalOfAllTasks ==
    (/\ InRun
     /\ periodic_tasks # <<>>
     /\ HasLeastCommonMultiple(PeriodsOf(C1_AllTasks), HyperperiodCap)
     /\ C1_Expected <= HyperperiodCap)
    => /\ hyperperiod = C1_Expected
       /\ TicksDone <= C1_Expected
       /\ pc = "done" => TicksDone = C1_Expected
       /\ \A r \in Range(aperiodic_tasks) : heap[r].arrival_time < hyperperiod

(***************************************************************************)
(* C2: calculate_hyperperiod(tasks) is the least common multiple of the    *)
(* periods of the Periodic tasks plus the largest arrival_time of all the  *)
(* tasks of the list when the list has a periodic task, and 20 otherwise.  *)
(***************************************************************************)
RECURSIVE SetProduct(_)
SetProduct(S) == IF S = {} THEN 1 ELSE LET x == CHOOSE y \in S : TRUE IN x * SetProduct(S \ {x})

C2_HyperperiodValue ==
    pc = "hyper_return" =>
        hyperperiod =
            IF PeriodsOf(hyper_tasks) = {} THEN 20
            ELSE LeastCommonMultiple(PeriodsOf(hyper_tasks), SetProduct(PeriodsOf(hyper_tasks)))
                   + SetMax(ArrivalsOf(hyper_tasks))

C2_Witness ==
    /\ pc = "hyper_return"
    /\ Cardinality(PeriodsOf(hyper_tasks)) = 2
    /\ \E i \in DOMAIN hyper_tasks :
          /\ hyper_tasks[i].type = "Aperiodic"
          /\ \A j \in DOMAIN hyper_tasks :
                hyper_tasks[j].type = "Periodic"
                  => hyper_tasks[j].arrival_time < hyper_tasks[i].arrival_time
    /\ hyperperiod = MaxPeriod * (MaxPeriod - 1) + MaxApArrival

(***************************************************************************)
(* C3: a second call of run_scheduler with the same task objects and the   *)
(* same arguments returns the same timeline and the same log as the first. *)
(***************************************************************************)
C3_SecondRunSameResult ==
    (runs >= 2 /\ pc = "done") => first_result = <<timeline, queue_log>>

C3_Witness ==
    /\ runs = 2
    /\ pc = "done"
    /\ \E i \in DOMAIN timeline : timeline[i].Status = "Missed"
    /\ \E r \in Range(active_periodic) :
          heap[r].remaining_time > 0 /\ heap[r].arrival_time > 0

(***************************************************************************)
(* C4: no step of a run changes the caller's lists or any field of the     *)
(* caller's Task objects; every change of a Task is made to a copy.        *)
(***************************************************************************)
C4_CallerInputsUnchanged ==
    [][/\ periodic_tasks' = periodic_tasks
       /\ aperiodic_tasks' = aperiodic_tasks
       /\ \A r \in CallerObjects : heap'[r] = heap[r]
       /\ \A r \in DOMAIN heap :
             heap'[r] # heap[r] => r \in Range(active_periodic) \cup Range(aperiodic_queue)
                                          \cup {ServerRef}]_vars

C4_Witness ==
    /\ pc = "done"
    /\ runs = 2
    /\ \E i \in DOMAIN active_periodic :
          /\ heap[active_periodic[i]].abs_deadline > 0
          /\ heap[active_periodic[i]].remaining_time > 0
          /\ heap[periodic_tasks[i]].abs_deadline = 0
          /\ heap[periodic_tasks[i]].remaining_time = 0
    /\ \E i \in DOMAIN aperiodic_queue :
          /\ heap[aperiodic_queue[i]].remaining_time > 0
          /\ heap[aperiodic_tasks[i]].remaining_time = 0

(***************************************************************************)
(* C5: every tick whose snapshot is in the log has exactly the keys        *)
(* CPU 1 .. CPU num_cpus in its snapshot and exactly one timeline entry    *)
(* [t, t+1) per processor label, with status Running, Server Exec,         *)
(* Background or Idle.                                                     *)
(***************************************************************************)
C5_Labels == {<<"CPU", k>> : k \in 1..num_cpus}

C5_OneAssignmentPerCpu ==
    \A s \in 0..(TicksDone - 1) :
        /\ queue_log[s + 1].Time = s
        /\ DOMAIN queue_log[s + 1].CPU = C5_Labels
        /\ Cardinality(SlotsAt(s)) = num_cpus
        /\ \A i \in SlotsAt(s) :
              /\ timeline[i].Finish = s + 1
              /\ timeline[i].Status \in ExecStatuses
              /\ timeline[i].CPU \in C5_Labels
        /\ \A c \in C5_Labels :
              Cardinality({i \in SlotsAt(s) : timeline[i].CPU = c}) = 1

C5_Witness ==
    /\ pc = "done"
    /\ num_cpus = MaxCpus
    /\ \E s \in 0..(TicksDone - 1) :
          {timeline[i].Status : i \in SlotsAt(s)} = {"Running", "Server Exec"}
    /\ \E s \in 0..(TicksDone - 1) :
          {timeline[i].Status : i \in SlotsAt(s)} = {"Idle"}

(***************************************************************************)
(* C6: in test 2 (Rate Monotonic, 1 CPU, T1(C=4,T=10,D=10), T2(C=2,T=12,   *)
(* D=4)) T1 runs during ticks 0..3, T2 does not run up to tick 4 and is    *)
(* recorded Missed at tick 4.  In general the deadline check of the tick   *)
(* that equals the absolute deadline of a job with remaining work records  *)
(* it Missed and drops it, and the task runs at that tick only if a new    *)
(* job of it is released at that tick.                                     *)
(***************************************************************************)
C6_Test2 ==
    (IsInput(Test2Input) /\ TicksDone >= 5) =>
        /\ \A s \in 0..3 :
              \E i \in SlotsAt(s) :
                  /\ timeline[i].Task = "T1"
                  /\ timeline[i].Status = "Running"
                  /\ timeline[i].CPU = <<"CPU", 1>>
        /\ ~\E i \in DOMAIN timeline :
              timeline[i].Task = "T2" /\ timeline[i].Status = "Running"
                /\ timeline[i].Start <= 4
        /\ HasEntry("T2", 4, 4, "Missed")

C6_MissedNotRun ==
    \A i \in DOMAIN timeline :
        timeline[i].Status = "Missed" =>
            \A r \in Range(active_periodic) :
                (heap[r].name = timeline[i].Task /\ ~IsArrival(heap[r], timeline[i].Start))
                  => ~\E j \in DOMAIN timeline :
                        /\ timeline[j].Task = timeline[i].Task
                        /\ timeline[j].Status = "Running"
                        /\ timeline[j].Start = timeline[i].Start

C6_CheckRecordsMiss ==
    \A r \in Range(active_periodic) :
        (pc = "deadline_check" /\ heap[r].remaining_time > 0 /\ heap[r].abs_deadline = t)
          => /\ heap'[r].remaining_time = 0
             /\ \E i \in DOMAIN timeline' :
                   /\ i > Len(timeline)
                   /\ timeline'[i] = TimelineEntry(heap[r].name, t, t, "Missed", <<"Err">>)

C6_MissAtDeadline ==
    /\ [](C6_Test2 /\ C6_MissedNotRun)
    /\ [][C6_CheckRecordsMiss]_vars

C6_Witness ==
    /\ IsInput(Test2Input)
    /\ pc = "done"
    /\ HasEntry("T2", 4, 4, "Missed")
    /\ HasEntry("T1", 3, 4, "Running")

(***************************************************************************)
(* C7: under the Deferrable Server the budget logged at a tick that is not *)
(* a replenishment tick is the budget logged at the tick before, or 1 less *)
(* at a tick with a Server Exec entry; at a replenishment tick it is the   *)
(* capacity, or 1 less with a Server Exec entry.  In test 1 (capacity 2,   *)
(* period 5, J1(cost 1, arrival 2)) the first entry of J1 starts at tick 2.*)
(***************************************************************************)
C7_Test1 ==
    IsInput(Test1Input("Deferrable Server")) =>
        /\ ~\E i \in DOMAIN timeline : timeline[i].Task = "J1" /\ timeline[i].Start < 2
        /\ TicksDone >= 3 => HasEntry("J1", 2, 3, "Server Exec")

C7_ServerRunsAt(s) == \E i \in SlotsAt(s) : timeline[i].Status = "Server Exec"

C7_BudgetBefore(s) ==
    IF s % server_period = 0 THEN server_capacity ELSE queue_log[s].ServerBudget

C7_DeferrableRetainsBudget ==
    /\ C7_Test1
    /\ server_type = "Deferrable Server" =>
          \A s \in 0..(TicksDone - 1) :
              \/ queue_log[s + 1].ServerBudget = C7_BudgetBefore(s)
              \/ /\ queue_log[s + 1].ServerBudget = C7_BudgetBefore(s) - 1
                 /\ C7_ServerRunsAt(s)

(***************************************************************************)
(* C8: under the Polling Server, once a tick of the current server period  *)
(* has had no ready aperiodic job the budget is 0, and no Server Exec      *)
(* entry starts at a later tick of that server period.  In test 1 the      *)
(* first entry of J1 starts at tick 5.                                     *)
(***************************************************************************)
\* the units a job has been given before tick s
C8_ExecutedBefore(r, s) ==
    Cardinality({i \in DOMAIN timeline :
                   /\ timeline[i].Task = heap[r].name
                   /\ timeline[i].Status \in {"Server Exec", "Background"}
                   /\ timeline[i].Start < s})

C8_NoReadyAt(s) ==
    \A r \in Range(aperiodic_queue) :
        ~(heap[r].arrival_time <= s /\ heap[r].cost - C8_ExecutedBefore(r, s) > 0)

C8_WindowStart(s) == s - (s % server_period)

\* the last tick whose server step has been taken
C8_LastPolled == IF pc \in {"dispatch", "raised"} THEN t ELSE t - 1

C8_Test1 ==
    IsInput(Test1Input("Polling Server")) =>
        /\ ~\E i \in DOMAIN timeline : timeline[i].Task = "J1" /\ timeline[i].Start < 5
        /\ TicksDone >= 6 => HasEntry("J1", 5, 6, "Server Exec")

C8_PollingForfeitsBudget ==
    /\ C8_Test1
    /\ (server_type = "Polling Server" /\ InRun) =>
          /\ C8_LastPolled >= 0 =>
                \A s \in C8_WindowStart(C8_LastPolled)..C8_LastPolled :
                    C8_NoReadyAt(s) => server_budget = 0
          /\ \A i \in DOMAIN timeline :
                timeline[i].Status = "Server Exec" =>
                    \A s \in C8_WindowStart(timeline[i].Start)..(timeline[i].Start - 1) :
                        ~C8_NoReadyAt(s)

(***************************************************************************)
(* C9: at every tick, of the R entries of the ready set exactly            *)
(* min(num_cpus, R) are executed and every periodic task among the others  *)
(* is in the waiting list of that tick.  In test 3 (2 CPUs, T1, T2, T3     *)
(* with C=2, T=10) two tasks run at tick 0 and T3 is in its waiting list.  *)
(***************************************************************************)
Min(a, b) == IF a < b THEN a ELSE b

WaitingOf(s) ==
    IF queue_log[s + 1].WaitingQueue = <<"Empty">> THEN <<>>
    ELSE queue_log[s + 1].WaitingQueue[2]

\* the state right after the snapshot of tick t - 1 was appended
C9_TickLogged == pc \in {"deadline_check", "done"} /\ t >= 1 /\ TicksDone = t

C9_Test3 ==
    (IsInput(Test3Input) /\ TicksDone >= 1) =>
        /\ Cardinality({i \in SlotsAt(0) : timeline[i].Status = "Running"}) = 2
        /\ <<"T3">> \in Range(WaitingOf(0))

C9_ReadySetSplit ==
    /\ C9_Test3
    /\ C9_TickLogged =>
          LET R == Len(global_ready_queue)
              k == Min(num_cpus, R)
          IN  /\ Cardinality({i \in SlotsAt(t - 1) :
                                timeline[i].Status \in {"Running", "Server Exec"}}) = k
              /\ \A j \in (k + 1)..R :
                    global_ready_queue[j] # ServerRef
                      => <<heap[global_ready_queue[j]].name>> \in Range(WaitingOf(t - 1))

(***************************************************************************)
(* C10: the remaining_time of every periodic task and of every aperiodic   *)
(* job is never negative.                                                  *)
(***************************************************************************)
C10_RemainingTimeNonNegative ==
    \A r \in DOMAIN heap : heap[r].remaining_time >= 0

(***************************************************************************)
(* C11: the absolute deadline of a task object changes only in the         *)
(* periodic-release step of a tick t, for a periodic task with             *)
(* t >= arrival and (t - arrival) mod period = 0, and becomes              *)
(* t + relative deadline; every other step leaves the absolute deadline of *)
(* every task unchanged.  (The proxy is a new object at every tick.)       *)
(***************************************************************************)
C11_TaskObjects == (DOMAIN heap \cap DOMAIN heap') \ {ServerRef}

C11_ReleaseAt(task, now) ==
    /\ task.type = "Periodic"
    /\ now >= task.arrival_time
    /\ (now - task.arrival_time) % task.period = 0

C11_DeadlineStep ==
    /\ \A r \in C11_TaskObjects :
          heap'[r].abs_deadline # heap[r].abs_deadline
            => /\ pc = "arrivals"
               /\ r \in Range(active_periodic)
               /\ C11_ReleaseAt(heap[r], t)
               /\ heap'[r].abs_deadline = t + heap[r].deadline
    /\ pc = "arrivals" =>
          \A r \in Range(active_periodic) :
              C11_ReleaseAt(heap[r], t) => heap'[r].abs_deadline = t + heap[r].deadline

C11_AbsDeadlineOnlyAtRelease == [][C11_DeadlineStep]_vars

\* a second release of a task has moved its absolute deadline
C11_Witness ==
    /\ pc = "server"
    /\ t > 0
    /\ \E r \in Range(active_periodic) :
          /\ C11_ReleaseAt(heap[r], t)
          /\ t > heap[r].arrival_time
          /\ heap[r].abs_deadline = t + heap[r].deadline

(***************************************************************************)
(* C12: in Deferrable or Polling mode with capacity >= 0 the server budget *)
(* is always between 0 and the capacity, and so is every Server Budget     *)
(* value written to the log.                                               *)
(***************************************************************************)
C12_BudgetInRange ==
    (InRun /\ server_type \in BudgetServers /\ server_capacity >= 0) =>
        /\ 0 <= server_budget /\ server_budget <= server_capacity
        /\ \A s \in DOMAIN queue_log :
              /\ 0 <= queue_log[s].ServerBudget
              /\ queue_log[s].ServerBudget <= server_capacity

\* the log shows the full budget, a spent budget, and a server execution
C12_Witness ==
    /\ pc = "done"
    /\ server_type \in BudgetServers
    /\ server_capacity > 0
    /\ \E s \in DOMAIN queue_log : queue_log[s].ServerBudget = server_capacity
    /\ \E s \in DOMAIN queue_log : queue_log[s].ServerBudget = 0
    /\ \E i \in DOMAIN timeline : timeline[i].Status = "Server Exec"

(***************************************************************************)
(* C13: the timeline is coalesced: it never holds two entries with the     *)
(* same task name, status and processor where the Finish of one equals the *)
(* Start of the other (a task that runs k consecutive ticks on one         *)
(* processor yields one entry with Finish - Start = k).                    *)
(***************************************************************************)
C13_Adjacent(a, b) ==
    /\ a.Task = b.Task
    /\ a.Status = b.Status
    /\ a.CPU = b.CPU
    /\ a.Finish = b.Start

C13_TimelineCoalesced ==
    \A i, j \in DOMAIN timeline :
        i # j => ~C13_Adjacent(timeline[i], timeline[j])

(***************************************************************************)
(* C14: when the server mode is None no aperiodic job is ever executed:    *)
(* every aperiodic job keeps remaining_time = cost, no timeline entry has  *)
(* status Server Exec or Background, and no proxy is in the ready set.     *)
(***************************************************************************)
C14_NoneRunsNoAperiodic ==
    (InRun /\ server_type = "None") =>
        /\ \A r \in Range(aperiodic_queue) : heap[r].remaining_time = heap[r].cost
        /\ \A i \in DOMAIN timeline : timeline[i].Status \notin {"Server Exec", "Background"}
        /\ ServerRef \notin Range(global_ready_queue)

(***************************************************************************)
(* C15: in Background mode, with names unique within each kind, at every   *)
(* tick an aperiodic job executes only on a processor reached after the    *)
(* sorted ready list is exhausted; with k such processors and m ready      *)
(* aperiodic jobs exactly min(k, m) distinct jobs execute, each for one    *)
(* unit and on one processor; and the server budget never changes.         *)
(***************************************************************************)
C15_Distinct(list) ==
    \A i, j \in DOMAIN list : i # j => heap[list[i]].name # heap[list[j]].name

C15_NamesUniqueWithinKind == C15_Distinct(periodic_tasks) /\ C15_Distinct(aperiodic_tasks)

C15_AperiodicSlots(s) ==
    {i \in SlotsAt(s) : timeline[i].Status \in {"Server Exec", "Background"}}

C15_TickSplit ==
    (C9_TickLogged /\ server_type = "Background" /\ C15_NamesUniqueWithinKind) =>
        LET R == Len(global_ready_queue)
            k == IF num_cpus > R THEN num_cpus - R ELSE 0
            m == Len(ready_aperiodic)
            slots == C15_AperiodicSlots(t - 1)
        IN  /\ \A i \in slots :
                  /\ timeline[i].Status = "Background"
                  /\ timeline[i].CPU[2] > R
                  /\ timeline[i].Finish = timeline[i].Start + 1
            /\ Cardinality(slots) = Min(k, m)
            /\ \A i, j \in slots : i # j => timeline[i].Task # timeline[j].Task
            /\ \A i \in slots :
                  \E r \in Range(ready_aperiodic) : heap[r].name = timeline[i].Task

C15_BudgetStep ==
    (InRun /\ server_type = "Background") => server_budget' = server_budget

C15_BackgroundOnIdleProcessors == []C15_TickSplit /\ [][C15_BudgetStep]_vars

(***************************************************************************)
(* C16: aperiodic service is FIFO by arrival: whenever a unit of execution *)
(* is given to an aperiodic job (Server Exec or Background), that job has  *)
(* the smallest arrival time among the aperiodic jobs that are ready at    *)
(* the tick and not yet assigned at it, in whatever order the caller lists *)
(* the jobs.                                                               *)
(***************************************************************************)
C16_Served(r) ==
    /\ r \in Range(ready_aperiodic)
    /\ heap'[r].remaining_time = heap[r].remaining_time - 1

C16_Unassigned ==
    {q \in Range(ready_aperiodic) : heap[q].name \notin Range(running_tasks_this_tick)}

C16_ServiceStep ==
    (pc = "dispatch" /\ Len(timeline') > Len(timeline)
       /\ timeline'[Len(timeline')].Status \in {"Server Exec", "Background"}) =>
        \A r \in Range(ready_aperiodic) :
            C16_Served(r) =>
                \A q \in C16_Unassigned : heap[r].arrival_time <= heap[q].arrival_time

C16_FifoByArrival == [][C16_ServiceStep]_vars

(***************************************************************************)
(* Vocabulary of the policy properties: the state right after the sort of  *)
(* tick t, the entries that will be dispatched at t, and the step that     *)
(* gives processor cpus_assigned + 1 the head of the sorted list.          *)
(***************************************************************************)
SortedTick == pc = "dispatch" /\ cpus_assigned = 0

DispatchedAt == 1..Min(num_cpus, Len(global_ready_queue))

UndispatchedAt == (Min(num_cpus, Len(global_ready_queue)) + 1)..Len(global_ready_queue)

DispatchTakesHead ==
    (pc = "dispatch" /\ pc' = "dispatch" /\ execution_candidates # <<>>) =>
        LET pos == cpus_assigned + 1
            entry == global_ready_queue[pos]
            e == timeline'[Len(timeline')]
        IN  /\ pos \in DispatchedAt
            /\ Head(execution_candidates) = entry
            /\ Len(timeline') = Len(timeline) + 1
            /\ e.Start = t /\ e.Finish = t + 1
            /\ e.CPU = <<"CPU", pos>>
            /\ \/ e.Status = "Running" /\ e.Task = heap[entry].name
               \/ e.Status = "Server Exec" /\ heap[entry].name = "Server"

(***************************************************************************)
(* C17: under Rate Monotonic, at every tick no ready entry left            *)
(* undispatched has a strictly smaller period than a dispatched entry (the *)
(* proxy's period is the server period), and CPU 1..CPU n receive the      *)
(* dispatched entries in non-decreasing period order.                      *)
(***************************************************************************)
C17_Period(r) == IF r = ServerRef THEN server_period ELSE heap[r].period

C17_Order ==
    (SortedTick /\ algorithm = "Rate Monotonic") =>
        /\ \A i \in DispatchedAt, j \in UndispatchedAt :
              ~(C17_Period(global_ready_queue[j]) < C17_Period(global_ready_queue[i]))
        /\ \A i, j \in DispatchedAt :
              i < j => C17_Period(global_ready_queue[i]) <= C17_Period(global_ready_queue[j])

C17_RateMonotonicDispatch ==
    /\ []C17_Order
    /\ [][algorithm = "Rate Monotonic" => DispatchTakesHead]_vars

\* two processors, three ready entries, the proxy dispatched ahead of a periodic task
C17_Witness ==
    /\ pc = "dispatch" /\ cpus_assigned = 2 /\ num_cpus = 2
    /\ algorithm = "Rate Monotonic"
    /\ Len(global_ready_queue) = 3
    /\ global_ready_queue[2] = ServerRef
    /\ server_period < heap[global_ready_queue[3]].period
    /\ \E i \in SlotsAt(t) : timeline[i].Status = "Server Exec" /\ timeline[i].CPU = <<"CPU", 2>>

(***************************************************************************)
(* C18: under Deadline Monotonic the ready set is dispatched by ascending  *)
(* relative deadline (equal to the period when unset), not by absolute     *)
(* deadline: a ready entry with a smaller relative deadline is ahead of a  *)
(* ready entry with a larger one, also when the latter has the earlier     *)
(* absolute deadline.                                                      *)
(***************************************************************************)
C18_RelativeDeadline(r) ==
    IF r = ServerRef THEN server_period
    ELSE IF heap[r].deadline = 0 /\ heap[r].period > 0 THEN heap[r].period
         ELSE heap[r].deadline

C18_Order ==
    (SortedTick /\ algorithm = "Deadline Monotonic") =>
        \A i, j \in DOMAIN global_ready_queue :
            C18_RelativeDeadline(global_ready_queue[i])
              < C18_RelativeDeadline(global_ready_queue[j]) => i < j

C18_DeadlineMonotonicDispatch ==
    /\ []C18_Order
    /\ [][algorithm = "Deadline Monotonic" => DispatchTakesHead]_vars

\* the entry dispatched first has the later absolute deadline
C18_Witness ==
    /\ pc = "dispatch" /\ cpus_assigned = 1 /\ num_cpus = 1
    /\ algorithm = "Deadline Monotonic"
    /\ Len(global_ready_queue) = 2
    /\ LET first == heap[global_ready_queue[1]]
           second == heap[global_ready_queue[2]]
       IN  /\ first.deadline < second.deadline
           /\ first.abs_deadline > second.abs_deadline
           /\ second.remaining_time > 0
           /\ \E i \in SlotsAt(t) : timeline[i].Task = first.name /\ timeline[i].Status = "Running"

(***************************************************************************)
(* C19: under EDF, at every tick no ready entry left undispatched has a    *)
(* strictly earlier absolute deadline than a dispatched entry, where the   *)
(* absolute deadline of the proxy is the last replenishment tick plus the  *)
(* server period and that of a periodic task is its latest release tick    *)
(* plus its relative deadline.                                             *)
(***************************************************************************)
C19_LatestRelease(task) == t - ((t - task.arrival_time) % task.period)

C19_AbsDeadline(r) ==
    IF r = ServerRef THEN (t - (t % server_period)) + server_period
    ELSE C19_LatestRelease(heap[r]) + heap[r].deadline

C19_Order ==
    (SortedTick /\ algorithm = "EDF") =>
        /\ \A i \in DOMAIN global_ready_queue :
              heap[global_ready_queue[i]].abs_deadline = C19_AbsDeadline(global_ready_queue[i])
        /\ \A i \in DispatchedAt, j \in UndispatchedAt :
              ~(C19_AbsDeadline(global_ready_queue[j]) < C19_AbsDeadline(global_ready_queue[i]))

C19_EdfDispatch ==
    /\ []C19_Order
    /\ [][algorithm = "EDF" => DispatchTakesHead]_vars

\* the proxy, replenished at an earlier tick, runs ahead of a periodic task listed before it
C19_Witness ==
    /\ pc = "dispatch" /\ cpus_assigned = 1 /\ num_cpus = 1
    /\ algorithm = "EDF"
    /\ server_type \in BudgetServers
    /\ t % server_period # 0
    /\ Len(global_ready_queue) >= 2
    /\ global_ready_queue[1] = ServerRef
    /\ heap[ServerRef].abs_deadline < heap[global_ready_queue[2]].abs_deadline
    /\ \E i \in SlotsAt(t) : timeline[i].Status = "Server Exec"

(***************************************************************************)
(* C20: under Least Laxity First, at every tick t no ready entry left      *)
(* undispatched has a strictly smaller laxity                              *)
(* (absolute_deadline - t) - remaining_time, taken from the state at the   *)
(* sort step of tick t, than an entry dispatched at t.                     *)
(***************************************************************************)
C20_Laxity(r) == (heap[r].abs_deadline - t) - heap[r].remaining_time

C20_Order ==
    (SortedTick /\ algorithm = "Least Laxity First") =>
        \A i \in DispatchedAt, j \in UndispatchedAt :
            ~(C20_Laxity(global_ready_queue[j]) < C20_Laxity(global_ready_queue[i]))

C21_Key(r) ==
    CASE algorithm = "Rate Monotonic" -> heap[r].period
      [] algorithm = "Deadline Monotonic" -> heap[r].deadline
      [] algorithm = "EDF" -> heap[r].abs_deadline
      [] algorithm = "Least Laxity First" ->
            (heap[r].abs_deadline - t) - heap[r].remaining_time

\* position of a working copy in the list copied from the caller's periodic list
C21_ListPosition(r) == CHOOSE i \in DOMAIN active_periodic : active_periodic[i] = r

C21_TieOrder ==
    SortedTick =>
        \A i, j \in DOMAIN global_ready_queue :
            (i < j /\ C21_Key(global_ready_queue[i]) = C21_Key(global_ready_queue[j])) =>
                /\ global_ready_queue[i] # ServerRef
                /\ global_ready_queue[j] # ServerRef =>
                      C21_ListPosition(global_ready_queue[i])
                        < C21_ListPosition(global_ready_queue[j])

C21_TiesByConstructionOrder ==
    /\ []C21_TieOrder
    /\ [][DispatchTakesHead]_vars

\* the proxy ties with a periodic task and is placed after it; the head is dispatched
C21_Witness ==
    /\ pc = "dispatch" /\ cpus_assigned = 1 /\ num_cpus = 1
    /\ Len(global_ready_queue) = 3
    /\ global_ready_queue[3] = ServerRef
    /\ C21_Key(global_ready_queue[2]) = C21_Key(ServerRef)
    /\ \E i \in SlotsAt(t) :
          timeline[i].Task = heap[global_ready_queue[1]].name /\ timeline[i].Status = "Running"

(***************************************************************************)
(* C22: within a tick the deadline check precedes the periodic release: if *)
(* at a release tick t of a periodic task the previous job still has       *)
(* remaining_time > 0 and t >= its absolute deadline, a Missed entry for   *)
(* the task is recorded at t, then the new job is released at t with       *)
(* remaining_time = cost and absolute deadline t + relative deadline, and  *)
(* it is in the ready set of t.                                            *)
(***************************************************************************)
C22_CheckStep ==
    pc = "deadline_check" =>
        \A r \in Range(active_periodic) :
            (C11_ReleaseAt(heap[r], t) /\ heap[r].remaining_time > 0
               /\ t >= heap[r].abs_deadline) =>
                /\ \E i \in DOMAIN timeline' :
                      /\ i > Len(timeline)
                      /\ timeline'[i] = TimelineEntry(heap[r].name, t, t, "Missed", <<"Err">>)
                /\ pc' = "arrivals"

C22_Released ==
    \A r \in Range(active_periodic) :
        C11_ReleaseAt(heap[r], t) =>
            /\ pc = "server" =>
                  /\ heap[r].remaining_time = heap[r].cost
                  /\ heap[r].abs_deadline = t + heap[r].deadline
            /\ (SortedTick /\ heap[r].cost > 0) => r \in Range(global_ready_queue)

C22_CheckBeforeRelease == []C22_Released /\ [][C22_CheckStep]_vars

\* a task recorded Missed at t runs its new job at t
C22_Witness ==
    /\ pc = "dispatch"
    /\ \E r \in Range(active_periodic) :
          /\ C11_ReleaseAt(heap[r], t)
          /\ HasEntry(heap[r].name, t, t, "Missed")
          /\ HasEntry(heap[r].name, t, t + 1, "Running")
          /\ heap[r].abs_deadline = t + heap[r].deadline

(***************************************************************************)
(* C23: every run simulates its full duration H (the computed hyperperiod, *)
(* at most 100) with no early stop: it ends by returning, and the returned *)
(* log has exactly H snapshots whose Time values are 0, 1, ..., H-1.       *)
(***************************************************************************)
C23_RunsFullDuration ==
    InRun =>
        /\ hyperperiod <= HyperperiodCap
        /\ \A s \in DOMAIN queue_log : queue_log[s].Time = s - 1
        /\ Len(queue_log) <= hyperperiod
        /\ pc # "raised"
        /\ pc = "done" => Len(queue_log) = hyperperiod

(***************************************************************************)
(* C24: the remaining_time of a periodic task changes during a run only by *)
(* being reset to cost at a release event or by being decremented by one   *)
(* unit of execution; no other step of the tick changes it.                *)
(***************************************************************************)
C24_Reset(r) ==
    /\ pc = "arrivals"
    /\ C11_ReleaseAt(heap[r], t)
    /\ heap'[r].remaining_time = heap[r].cost

C24_Executed(r) ==
    /\ pc = "dispatch"
    /\ heap'[r].remaining_time = heap[r].remaining_time - 1
    /\ timeline' = Append(timeline, TimelineEntry(heap[r].name, t, t + 1, "Running",
                                                  <<"CPU", cpus_assigned + 1>>))

C24_Dropped(r) ==
    /\ pc = "deadline_check"
    /\ heap'[r].remaining_time = 0
    /\ \E i \in DOMAIN timeline' :
          /\ i > Len(timeline)
          /\ timeline'[i] = TimelineEntry(heap[r].name, t, t, "Missed", <<"Err">>)

C24_Changed(r) ==
    /\ r \in DOMAIN heap'
    /\ heap[r].type = "Periodic"
    /\ heap'[r].remaining_time # heap[r].remaining_time

C24_ResetOrExecutedStep ==
    \A r \in DOMAIN heap : C24_Changed(r) => (C24_Reset(r) \/ C24_Executed(r))

C24_OnlyResetOrExecuted == [][C24_ResetOrExecutedStep]_vars

(***************************************************************************)
(* C24 as amended: the remaining_time of a periodic task changes only by   *)
(* being reset to cost at a release event, by being decremented by one     *)
(* unit of execution, or by being set to 0 when the deadline check records *)
(* the job Missed and drops it.                                            *)
(***************************************************************************)
C24_AmendedStep ==
    \A r \in DOMAIN heap :
        C24_Changed(r) => (C24_Reset(r) \/ C24_Executed(r) \/ C24_Dropped(r))

C24_ResetExecutedOrDropped == [][C24_AmendedStep]_vars

\* a run in which a job was dropped, a job was released again and a job was executed
C24_Witness ==
    /\ pc = "done"
    /\ \E i \in DOMAIN timeline : timeline[i].Status = "Missed"
    /\ \E i \in DOMAIN timeline : timeline[i].Status = "Running" /\ timeline[i].Start > 0

(***************************************************************************)
(* C25: every deadline miss is recorded: for every periodic task with      *)
(* cost > 0, period > 0 and relative deadline > 0, and every release tick  *)
(* r of it with r + relative deadline < H, if the job released at r has    *)
(* received fewer than cost units of execution in the ticks                *)
(* [r, r + relative deadline), the returned timeline has a Missed entry of *)
(* the task with Start = Finish = r + relative deadline.                   *)
(***************************************************************************)
\* the ticks [rel, rel + deadline); every execution of the task in them is counted
\* for the job released at rel, also one that follows a later release
C25_JobTicks(task, rel) == {s \in 0..hyperperiod : rel <= s /\ s < rel + task.deadline}

C25_UnitsReceived(task, rel) ==
    Cardinality({i \in DOMAIN timeline :
                   /\ timeline[i].Task = task.name
                   /\ timeline[i].Status = "Running"
                   /\ timeline[i].Start \in C25_JobTicks(task, rel)})

C25_EveryMissRecorded ==
    pc = "done" =>
        \A r \in Range(active_periodic) :
            (heap[r].cost > 0 /\ heap[r].period > 0 /\ heap[r].deadline > 0) =>
                \A rel \in 0..hyperperiod :
                    (C11_ReleaseAt(heap[r], rel) /\ rel + heap[r].deadline < hyperperiod
                       /\ C25_UnitsReceived(heap[r], rel) < heap[r].cost)
                      => HasEntry(heap[r].name, rel + heap[r].deadline,
                                  rel + heap[r].deadline, "Missed")

(***************************************************************************)
(* C26: in Deferrable and Polling modes, with names unique within each     *)
(* kind, the proxy is in the ready set of tick t exactly when, after       *)
(* replenishment and forfeiture, budget > 0 and an aperiodic job is ready; *)
(* and whenever the dispatch treats an entry as the proxy, a ready         *)
(* aperiodic job exists, that job's remaining_time decreases by exactly 1  *)
(* and the budget decreases by exactly 1.                                  *)
(***************************************************************************)
C26_Applies == server_type \in BudgetServers /\ C15_NamesUniqueWithinKind

C26_ProxyInReadySet ==
    (SortedTick /\ C26_Applies) =>
        (ServerRef \in Range(global_ready_queue)
           <=> (server_budget > 0
                  /\ \E r \in Range(aperiodic_queue) :
                        heap[r].arrival_time <= t /\ heap[r].remaining_time > 0))

C26_ProxyStep ==
    (pc = "dispatch" /\ C26_Applies /\ cpus_assigned < num_cpus
       /\ execution_candidates # <<>>
       /\ heap[Head(execution_candidates)].name = "Server") =>
        /\ \E r \in Range(aperiodic_queue) :
              /\ heap[r].arrival_time <= t /\ heap[r].remaining_time > 0
              /\ heap'[r].remaining_time = heap[r].remaining_time - 1
        /\ server_budget' = server_budget - 1

C26_ProxyServesReadyJob == []C26_ProxyInReadySet /\ [][C26_ProxyStep]_vars

(***************************************************************************)
(* C27: with names unique within each kind (a periodic task and an         *)
(* aperiodic job may share a name), the waiting list of the snapshot of a  *)
(* tick holds exactly the periodic tasks that were in the ready set and    *)
(* were not dispatched at the tick, followed by exactly the aperiodic jobs *)
(* ready at the tick (marked (AP)) that were not executed at it, and is    *)
(* reported as Empty only when there are none of either.                   *)
(***************************************************************************)
C27_WaitingPeriodic ==
    {<<heap[global_ready_queue[j]].name>> :
        j \in {k \in UndispatchedAt : global_ready_queue[k] # ServerRef}}

C27_ExecutedAt(name, s) ==
    \E i \in SlotsAt(s) :
        timeline[i].Task = name /\ timeline[i].Status \in {"Server Exec", "Background"}

C27_WaitingAperiodic ==
    {<<heap[r].name, "(AP)">> :
        r \in {q \in Range(ready_aperiodic) : ~C27_ExecutedAt(heap[q].name, t - 1)}}

C27_WaitingListExact ==
    (C9_TickLogged /\ C15_NamesUniqueWithinKind) =>
        LET W == WaitingOf(t - 1)
        IN  /\ Range(W) = C27_WaitingPeriodic \cup C27_WaitingAperiodic
            /\ Len(W) = Cardinality(C27_WaitingPeriodic) + Cardinality(C27_WaitingAperiodic)
            /\ \A i, j \in DOMAIN W : (i < j /\ Len(W[i]) = 2) => Len(W[j]) = 2
            /\ queue_log[t].WaitingQueue = <<"Empty">>
                 <=> C27_WaitingPeriodic \cup C27_WaitingAperiodic = {}

(***************************************************************************)
(* C28: a periodic task with arrival offset a and period p is released     *)
(* exactly at the ticks t < H with t >= a and (t - a) mod p = 0: before a  *)
(* it is never in the ready set and never executed, and at each release    *)
(* tick its remaining_time is set to cost whatever its previous value.     *)
(***************************************************************************)
C28_BeforeArrival ==
    InRun =>
        \A r \in Range(active_periodic) :
            /\ \A i \in DOMAIN timeline :
                  (timeline[i].Task = heap[r].name /\ timeline[i].Status = "Running")
                    => timeline[i].Start >= heap[r].arrival_time
            /\ (t < heap[r].arrival_time) =>
                  /\ heap[r].remaining_time = 0
                  /\ r \notin Range(global_ready_queue)

C28_ReleaseStep ==
    pc = "arrivals" =>
        \A r \in Range(active_periodic) :
            IF t >= heap[r].arrival_time /\ (t - heap[r].arrival_time) % heap[r].period = 0
            THEN /\ heap'[r].remaining_time = heap[r].cost
                 /\ heap'[r].abs_deadline = t + heap[r].deadline
            ELSE /\ heap'[r].remaining_time = heap[r].remaining_time
                 /\ heap'[r].abs_deadline = heap[r].abs_deadline

C28_ReleasedExactlyAtPeriodTicks == []C28_BeforeArrival /\ [][C28_ReleaseStep]_vars

\* a task with a positive offset is released a second time, one period after its arrival
C28_Witness ==
    /\ pc = "server"
    /\ \E r \in Range(active_periodic) :
          /\ heap[r].arrival_time > 0
          /\ t = heap[r].arrival_time + heap[r].period
          /\ heap[r].remaining_time = heap[r].cost
          /\ HasEntry(heap[r].name, heap[r].arrival_time, heap[r].arrival_time + 1, "Running")

(***************************************************************************)
(* C29: in Deferrable and Polling modes, for every k the number of Server  *)
(* Exec entries with Start in [k*period, (k+1)*period) is at most the      *)
(* capacity, for every num_cpus and every algorithm.                       *)
(***************************************************************************)
C29_ServerExecIn(k) ==
    {i \in DOMAIN timeline :
        /\ timeline[i].Status = "Server Exec"
        /\ k * server_period <= timeline[i].Start
        /\ timeline[i].Start < (k + 1) * server_period}

C29_ServiceBoundedPerPeriod ==
    (InRun /\ server_type \in BudgetServers) =>
        \A k \in 0..hyperperiod : Cardinality(C29_ServerExecIn(k)) <= server_capacity

(***************************************************************************)
(* C30: no task executes on more than one processor in the same tick: each *)
(* periodic task and each aperiodic job appears in at most one execution   *)
(* entry with Start = t, and in Deferrable or Polling mode at most one     *)
(* Server Exec entry exists per tick however many processors are idle.     *)
(***************************************************************************)
C30_ExecutionsOf(r, s) ==
    {i \in SlotsAt(s) :
        /\ timeline[i].Task = heap[r].name
        /\ timeline[i].Status \in (IF heap[r].type = "Periodic"
                                   THEN {"Running"} ELSE {"Server Exec", "Background"})}

C30_OneProcessorPerTick ==
    InRun =>
        \A s \in 0..hyperperiod :
            /\ \A r \in Range(active_periodic) \cup Range(aperiodic_queue) :
                  Cardinality(C30_ExecutionsOf(r, s)) <= 1
            /\ (server_type \in BudgetServers) =>
                  Cardinality({i \in SlotsAt(s) : timeline[i].Status = "Server Exec"}) <= 1

(***************************************************************************)
(* C31: Missed entries are sound: every Missed entry is zero-width (Start  *)
(* = Finish = t), is recorded for a periodic task that at the start of     *)
(* tick t had remaining_time > 0 and whose current absolute deadline       *)
(* equals t exactly, is followed by that task having no pending work until *)
(* its next release, and there is at most one Missed entry per task per    *)
(* tick.                                                                   *)
(***************************************************************************)
C31_NewEntries == {i \in DOMAIN timeline' : i > Len(timeline)}

C31_CheckStep ==
    IF pc = "deadline_check"
    THEN \A i \in C31_NewEntries :
            /\ timeline'[i].Status = "Missed"
            /\ timeline'[i].Start = t
            /\ timeline'[i].Finish = t
            /\ \E r \in Range(active_periodic) :
                  /\ heap[r].name = timeline'[i].Task
                  /\ heap[r].type = "Periodic"
                  /\ heap[r].remaining_time > 0
                  /\ heap[r].abs_deadline = t
                  /\ heap'[r].remaining_time = 0
    ELSE \A i \in C31_NewEntries : timeline'[i].Status # "Missed"

\* the last tick whose releases have been made
C31_ReleasedThrough == IF pc \in {"deadline_check", "arrivals"} THEN t - 1 ELSE t

C31_MissedEntries == {i \in DOMAIN timeline : timeline[i].Status = "Missed"}

C31_Dropped ==
    InRun =>
        \A i \in C31_MissedEntries :
            /\ timeline[i].Start = timeline[i].Finish
            /\ \A j \in C31_MissedEntries :
                  (timeline[j].Task = timeline[i].Task /\ timeline[j].Start = timeline[i].Start)
                    => j = i
            /\ \A r \in Range(active_periodic) :
                  (/\ heap[r].name = timeline[i].Task
                   /\ \A u \in timeline[i].Start..C31_ReleasedThrough : ~C11_ReleaseAt(heap[r], u))
                    => heap[r].remaining_time = 0

C31_MissedEntriesSound == []C31_Dropped /\ [][C31_CheckStep]_vars

\* a job was dropped at its deadline, which is not a release tick of its task
C31_Witness ==
    /\ pc = "dispatch"
    /\ \E r \in Range(active_periodic) :
          /\ HasEntry(heap[r].name, t, t, "Missed")
          /\ ~C11_ReleaseAt(heap[r], t)
          /\ heap[r].remaining_time = 0
          /\ heap[r].abs_deadline = t

(***************************************************************************)
(* C32: dispatch is work-conserving for periodic tasks: at any tick where  *)
(* some processor is recorded Idle or runs a Background job, no periodic   *)
(* task with remaining_time > 0 is left undispatched at that tick.         *)
(***************************************************************************)
C32_SpareProcessorAt(s) ==
    \E i \in SlotsAt(s) : timeline[i].Status \in {"Idle", "Background"}

C32_RunsAt(r, s) ==
    \E i \in SlotsAt(s) : timeline[i].Task = heap[r].name /\ timeline[i].Status = "Running"

C32_WorkConserving ==
    (C9_TickLogged /\ C32_SpareProcessorAt(t - 1)) =>
        \A r \in Range(active_periodic) :
            heap[r].remaining_time > 0 => C32_RunsAt(r, t - 1)

(***************************************************************************)
(* C33: a server_type value that is not exactly one of the strings         *)
(* Background, Deferrable Server, Polling Server (the string None, or the  *)
(* web UI's option text with a leading space before Polling Server) yields *)
(* the same timeline as mode None for the same tasks: every test of        *)
(* server_type gives what it gives for None, no aperiodic job ever         *)
(* executes and the budget stays at its initial value for the whole run.   *)
(***************************************************************************)
C33_Unrecognised == server_type \notin {"Background", "Deferrable Server", "Polling Server"}

C33_TestsAsNone ==
    /\ Replenishes(server_type, t, server_period) = Replenishes("None", t, server_period)
    /\ PollingForfeit(server_type, server_budget, ready_aperiodic)
         = PollingForfeit("None", server_budget, ready_aperiodic)
    /\ ServerInQueue(server_type, server_budget, ready_aperiodic)
         = ServerInQueue("None", server_budget, ready_aperiodic)
    /\ BackgroundRuns(server_type, heap, ready_aperiodic, running_tasks_this_tick)
         = BackgroundRuns("None", heap, ready_aperiodic, running_tasks_this_tick)

C33_UnrecognisedModeIsNone ==
    (InRun /\ C33_Unrecognised) =>
        /\ C33_TestsAsNone
        /\ \A r \in Range(aperiodic_queue) : heap[r].remaining_time = heap[r].cost
        /\ \A i \in DOMAIN timeline : timeline[i].Status \notin {"Server Exec", "Background"}
        /\ server_budget = server_capacity
        /\ \A s \in DOMAIN queue_log : queue_log[s].ServerBudget = server_capacity
====
